---- MODULE Spec2Model ----
(***************************************************************************)
(* Handler shadow stack and effect dispatch of libmprompt's mphnd.c.       *)
(*                                                                         *)
(* The state is the arena of handler frames, the thread-local _mph_top,    *)
(* the native call stack (one activation per pending call of               *)
(* mph_linear_handler / mph_start / mph_under / mph_mask / a handler-side  *)
(* yield function), the resume tokens handed out by the prompt substrate   *)
(* and a pending unwind.  User code is the environment: whatever runs on   *)
(* top of the call stack may call any operation of the public API.         *)
(***************************************************************************)
EXTENDS Integers, Sequences, FiniteSets, TLC

\* ---------------------------------------------------------------- bounds
MaxFrames == 3      \* handler frames held in memory at one time
MaxNest   == 4      \* the same, in runs that only nest installers and search
MaxTokens == 1      \* yields (resume tokens) performed in one run
MaxShots  == 2      \* resumes of one multi-shot token
MaxYields == 2      \* yields performed in runs that yield again after a resume

Kinds == {"A", "B"}         \* user effect kinds
HVals == {1, 2}             \* hdata pointers given to mph_linear_handler
FromVals == {0, 1}          \* `from` ordinals given to mph_mask
YVals == {3}                \* payloads given to mph_yield_to / mph_myield_to
RVals == {4, 5}             \* values given to mph_resume / mph_resume_tail
BVals == {6}                \* values returned by bodies and yield functions

\* ------------------------------------------------------------- constants
NULL == 0
MPH_FINALLY == "mph_finally"
MPH_UNDER   == "mph_under"
MPH_MASK    == "mph_mask"

Garbage == 0 - 2            \* a non-null value left in a never written pointer field
Diverge == 0 - 1            \* mph_find does not return (it loops forever)

VARIABLES
  has_try,   \* MP_HAS_TRY: TRUE = C++ build (exceptions), FALSE = plain C build
  cap,       \* how many handler frames the memory of this run holds
  tcap,      \* how many yields (resume tokens) this run performs
  frames,    \* the frames ever allocated: Seq of mph_handler_t (+ variant fields)
  top,       \* _mph_top
  stack,     \* native call stack, bottom first
  tokens,    \* resume tokens (captured continuations) of the substrate
  unw,       \* the unwind in flight, or NoUnwind
  ev         \* what the last step did (its observable outcome)

vars == <<has_try, cap, tcap, frames, top, stack, tokens, unw, ev>>

NoUnwind == [target |-> NULL, fun |-> "none", arg |-> NULL]

\* op: the step; f: the frame it is about; val: the value it produced;
\* k: a kind or tag; saved: the _mph_top to compare with; n: a token or a
\* count; given: the argument the caller passed
Ev(op, f, val, k, saved, n, given) ==
  [op |-> op, f |-> f, val |-> val, k |-> k, saved |-> saved, n |-> n, given |-> given]

\* an activation of the native stack.  `saved` is the value of _mph_top when
\* the activation was entered from below; for t = "yield" it is the local
\* yield_top.  `res` tells that the activation was re-entered by a resume.
Act(t, f, saved, r, arg) ==
  [t |-> t, f |-> f, saved |-> saved, r |-> r, arg |-> arg, res |-> FALSE]

InstallTypes == {"linear", "start", "under", "mask"}

\* ------------------------------------------------------------- accessors
mph_is_prompt_handler(h) == frames[h].prompt # NULL

mph_top == top

mph_parent(handler) == IF handler = NULL THEN mph_top ELSE frames[handler].parent

mph_kind(handler) == frames[handler].kind

mph_data(handler) == frames[handler].hdata

\* the storage reserved by alloca in mph_start for frame number f
Region(f) == 10 + f

\* ---------------------------------------------------------------- find
\* ((mph_handler_under_t*)h)->under.  mph_handler_under_t and
\* mph_handler_mask_t both put one mph_kind_t right after the header, so for
\* a frame built by mph_mask this read yields its `mask` field.
UnderField(fr) == IF fr.variant = "mask" THEN fr.mask ELSE fr.under

\* steps after which a walk over at most Len(fs) frames must have revisited one
Fuel(fs) == 2 * Len(fs) + 2

\* a slip of the do-while: it stops at the first parent, whatever its kind
SkipToFirst(fs, h, ukind, fuel) == fs[h].parent

\* do { h = h->parent; } while (h != NULL && h->kind != ukind);
RECURSIVE SkipTo(_, _, _, _)
SkipTo(fs, h, ukind, fuel) ==
  LET p == fs[h].parent IN
  IF fuel = 0 THEN Diverge
  ELSE IF p = NULL \/ fs[p].kind = ukind THEN p
  ELSE SkipTo(fs, p, ukind, fuel - 1)

\* a slip of the under branch: the search goes on at the matching handler
\* itself, without the h = h->parent of line 136
UnderBranchNoStep(fs, h, fuel) == SkipTo(fs, h, UnderField(fs[h]), fuel)

\* lines 121-128 and 136: skip to the matching handler of this under frame,
\* then step to its parent

UnderBranch(fs, h, fuel) ==
  LET h2 == SkipTo(fs, h, UnderField(fs[h]), fuel) IN
  IF h2 = NULL \/ h2 = Diverge THEN h2 ELSE fs[h2].parent

\* the while loop of mph_find, from frame h with the given mask_level
RECURSIVE FindLoop(_, _, _, _, _)
FindLoop(fs, h, kind, mask_level, fuel) ==
  IF h = NULL THEN NULL
  ELSE IF h = Diverge \/ fuel = 0 THEN Diverge
  ELSE LET hkind == fs[h].kind IN
    IF kind = hkind
      THEN IF mask_level <= 0 THEN h
           ELSE FindLoop(fs, fs[h].parent, kind, mask_level - 1, fuel - 1)
    ELSE IF hkind = MPH_UNDER
      THEN FindLoop(fs, UnderBranch(fs, h, fuel), kind, mask_level, fuel - 1)
    ELSE IF hkind = MPH_MASK
      THEN FindLoop(fs, fs[h].parent, kind,
                    IF fs[h].mask = kind /\ fs[h].from <= mask_level
                      THEN mask_level + 1 ELSE mask_level,
                    fuel - 1)
    ELSE FindLoop(fs, fs[h].parent, kind, mask_level, fuel - 1)

FindFrom(h, kind) == FindLoop(frames, h, kind, 0, Fuel(frames))

\* a slip of line 109: the walk starts below the top frame
mph_find_below_top(kind) == FindFrom(mph_parent(top), kind)

mph_find(kind) == FindFrom(top, kind)

\* ------------------------------------------------------- frames, scopes
Frame(parent, prompt, kind, hdata, variant, under, mask, from) ==
  [parent |-> parent, prompt |-> prompt, kind |-> kind, hdata |-> hdata,
   variant |-> variant, under |-> under, mask |-> mask, from |-> from]

\* mph_handler_t h of mph_linear_handler, before it is linked
LinearFrame(kind, hdata) == Frame(Garbage, NULL, kind, hdata, "user", "", "", 0)

\* mph_handler_t h of mph_start; f is the number the frame will get
StartFrame(kind, f) == Frame(Garbage, f, kind, Region(f), "user", "", "", 0)

\* what a read of a never written pointer field may give
Indeterminate == {NULL, Garbage}

\* mph_handler_under_t h of mph_under; h.handler.prompt is never written and
\* holds what the stack memory held: prompt
UnderFrame(under, prompt) == Frame(Garbage, prompt, MPH_UNDER, NULL, "under", under, "", 0)

\* a slip of line 416: the header gets another reserved kind
MaskFrameFinally(mask, from, prompt) ==
  Frame(Garbage, prompt, MPH_FINALLY, NULL, "mask", "", mask, from)

\* mph_handler_mask_t h of mph_mask; h.handler.prompt is never written and
\* holds what the stack memory held: prompt
MaskFrame(mask, from, prompt) ==
  Frame(Garbage, prompt, MPH_UNDER, NULL, "mask", "", mask, from)

\* entry of mph_with_handler(f): f->parent = _mph_top; _mph_top = f
WithHandlerEnter(fr) ==
  [frames |-> Append(frames, [fr EXCEPT !.parent = top]), top |-> Len(frames) + 1]

\* a slip of the exit: _mph_top is left as it is
WithHandlerExitNoPop(f) == top

\* exit of mph_with_handler(f): _mph_top = f->parent
WithHandlerExit(f) == frames[f].parent

Running == unw = NoUnwind

TopAct == stack[Len(stack)]

Pop(st) == SubSeq(st, 1, Len(st) - 1)

\* the frames that are installed by an activation of the call stack
OnStack(st) == {st[i].f : i \in {j \in 1..Len(st) : st[j].t \in InstallTypes}}

\* the frame numbers something still holds
Held(fs, tp, st, tk, u) ==
  {tp, u.target}
  \cup {st[i].f : i \in 1..Len(st)} \cup {st[i].saved : i \in 1..Len(st)}
  \cup UNION {{tk[r].seg[i].f : i \in 1..Len(tk[r].seg)} : r \in 1..Len(tk)}
  \cup UNION {{tk[r].seg[i].saved : i \in 1..Len(tk[r].seg)} : r \in 1..Len(tk)}
  \cup {fs[i].parent : i \in 1..(Len(fs) - 1)}

\* storage of a frame whose scope is over and that nothing points to is
\* free again: the next frame installed is given its number
RECURSIVE Collect(_, _, _, _, _)
Collect(fs, tp, st, tk, u) ==
  IF fs # <<>> /\ Len(fs) \notin Held(fs, tp, st, tk, u)
    THEN Collect(Pop(fs), tp, st, tk, u)
    ELSE fs

Commit(fs, tp, st, tk, u, e) ==
  /\ frames' = Collect(fs, tp, st, tk, u)
  /\ top' = tp
  /\ stack' = st
  /\ tokens' = tk
  /\ unw' = u
  /\ ev' = e
  /\ UNCHANGED <<has_try, cap, tcap>>

\* the call of an installer up to the call of its body
Install(t, fr, k) ==
  LET w == WithHandlerEnter(fr) IN
  /\ Running /\ Len(frames) < cap
  /\ Commit(w.frames, w.top, Append(stack, Act(t, w.top, top, 0, fr.hdata)), tokens, unw,
            Ev("install", w.top, NULL, k, top, 0, fr.hdata))

\* the body of an installer has returned v: the frame is popped and v returned
Uninstall(t, v) ==
  /\ Running /\ stack # <<>> /\ TopAct.t = t
  /\ Commit(frames, WithHandlerExit(TopAct.f), Pop(stack), tokens, unw,
            Ev("return", TopAct.f, v, t, TopAct.saved, IF TopAct.res THEN 1 ELSE 0, v))

\* ------------------------------------------------------------ installs
mph_linear_handler_call(kind, hdata) == Install("linear", LinearFrame(kind, hdata), kind)

mph_linear_handler_return(v) == Uninstall("linear", v)

\* mph_prompt: mp_prompt(&mph_start, &env) up to the call of env->body
mph_prompt_call(kind) == Install("start", StartFrame(kind, Len(frames) + 1), kind)

\* the body of mph_start has returned v: v is the result of the prompt
mph_start_return(v) == Uninstall("start", v)

mph_under_call(under, junk) == Install("under", UnderFrame(under, junk), under)

mph_under_return(v) == Uninstall("under", v)

mph_mask_call(mask, from, junk) == Install("mask", MaskFrame(mask, from, junk), mask)

mph_mask_return(v) == Uninstall("mask", v)

\* user code calls mph_find(kind) and gets frame ev'.f (or NULL, or never returns)
Find(kind) ==
  /\ Running
  /\ Commit(frames, top, stack, tokens, unw, Ev("find", mph_find(kind), NULL, kind, top, 0, NULL))

\* ------------------------------------------------------- yield / resume
NoFrame == Frame(NULL, NULL, "", NULL, "", "", "", 0)

\* the stack memory a multi-shot token keeps of its captured slice
Snap(fs, seg) ==
  [i \in 1..Len(fs) |-> IF i \in OnStack(seg) THEN fs[i] ELSE NoFrame]

\* the captured slice put back into memory as it was at the capture
Restore(fs, tk) ==
  [i \in 1..Len(fs) |->
     IF i \in DOMAIN tk.snap /\ i \in OnStack(tk.seg) THEN tk.snap[i] ELSE fs[i]]

\* mp_yield(prompt, fun, env) of the substrate, called by activation y: the
\* continuation from the mph_start at position i up to y is captured and fun
\* runs on what is left of the stack
mp_yield(st, i, y) ==
  [rest |-> SubSeq(st, 1, i - 1), seg |-> Append(SubSeq(st, i, Len(st)), y)]

\* mp_resume of the substrate: the captured slice runs on top of the resumer
mp_resume(base, seg) == base \o seg

\* mph_yield_fun: the handler side function is called with the envelope's fields
mph_yield_fun(r, h, arg) == Act("fn", h, frames[h].parent, r, arg)

\* mph_yield_to_internal(once, h, fun, arg) up to the call of fun in the
\* context of the prompt: i is the position of h's mph_start on the stack
mph_yield_to_internal(once, i, arg) ==
  LET h == stack[i].f
      yield_top == top
      c == mp_yield(stack, i, Act("yield", h, yield_top, 0, arg))
      seg == c.seg
      r == Len(tokens) + 1
  IN
  /\ Running /\ Len(tokens) < tcap
  /\ stack[i].t = "start"
  /\ mph_is_prompt_handler(h)
  /\ Commit(frames, frames[h].parent,
            Append(c.rest, mph_yield_fun(r, h, arg)),
            Append(tokens,
              [seg |-> seg, snap |-> IF once THEN <<>> ELSE Snap(frames, seg),
               h |-> h, ytop |-> yield_top, once |-> once, uses |-> 0, st |-> "live"]),
            unw,
            Ev("yield", h, arg, IF once THEN "once" ELSE "multi", yield_top, r, arg))

mph_yield_to(i, arg) == mph_yield_to_internal(TRUE, i, arg)

mph_myield_to(i, arg) == mph_yield_to_internal(FALSE, i, arg)

\* a slip of mph_resume: the envelope does not carry the argument
ResumeEnvNull(arg) == [result |-> NULL, unwind |-> FALSE]

\* the resume envelopes
ResumeEnv(arg) == [result |-> arg, unwind |-> FALSE]

UnwindEnv == [result |-> NULL, unwind |-> TRUE]

\* lines 331-332: _mph_top = yield_top; h->parent = _mph_top;
Relink(fs, tp, yield_top, h) ==
  LET top1 == yield_top
      fs1  == [fs EXCEPT ![h].parent = top1]
  IN [top |-> top1, frames |-> fs1]

\* a token may be resumed: it is live (a one-shot token is unused) and the
\* stack it would be restored to is not running
CanResume(r) ==
  /\ r \in 1..Len(tokens)
  /\ tokens[r].st = "live"
  /\ tokens[r].uses < MaxShots
  /\ OnStack(tokens[r].seg) \cap OnStack(stack) = {}

\* a one-shot token is gone once resumed; a multi-shot token stays
Consumed(r) ==
  IF tokens[r].once
    THEN [tokens EXCEPT ![r].uses = @ + 1, ![r].st = "used", ![r].seg = <<>>]
    ELSE [tokens EXCEPT ![r].uses = @ + 1]

\* what mph_yield_to_internal does with the envelope it got
YieldResult(renv) == renv.result

\* mp_resume / mp_resume_tail of token r with envelope renv, and the rest of
\* mph_yield_to_internal that runs when the continuation is re-entered; via
\* names what mph_resume_drop was told when the resume is made by it
ReenterVia(r, renv, tail, given, via) ==
  LET tk   == tokens[r]
      n    == Len(tk.seg)
      y    == tk.seg[n]
      base == IF tail THEN Pop(stack) ELSE stack
      seg  == [tk.seg EXCEPT ![1].saved = top, ![1].res = TRUE]
      rl   == Relink(Restore(frames, tk), top, y.saved, y.f)
  IN
  IF renv.unwind
    THEN \* mph_unwind_to(h, &mph_unwind_fun, renv->result)
         Commit(rl.frames, rl.top, mp_resume(base, seg), Consumed(r),
                [target |-> y.f, fun |-> "mph_unwind_fun", arg |-> renv.result],
                Ev("unwind_to", y.f, renv.result, via, top, r, given))
    ELSE \* return renv->result
         Commit(rl.frames, rl.top, Pop(mp_resume(base, seg)), Consumed(r), unw,
                Ev("yield_return", y.f, YieldResult(renv), via, top, r, given))

Reenter(r, renv, tail, given) == ReenterVia(r, renv, tail, given, "")

mph_resume(r, arg) ==
  /\ Running /\ CanResume(r)
  /\ Reenter(r, ResumeEnv(arg), FALSE, arg)

\* the handler side function ends with the resume: its activation is reused
mph_resume_tail(r, arg) ==
  /\ Running /\ CanResume(r)
  /\ stack # <<>> /\ TopAct.t = "fn" /\ TopAct.r = r
  /\ Reenter(r, ResumeEnv(arg), TRUE, arg)

mph_resume_unwind(r) ==
  /\ Running /\ CanResume(r)
  /\ Reenter(r, UnwindEnv, FALSE, NULL)

\* mp_resume_drop(r): the token is released without being resumed
mp_resume_drop(tk, r) ==
  [tk EXCEPT ![r].st = "dropped", ![r].seg = <<>>, ![r].snap = <<>>]

\* a slip of mph_resume_drop: the answer of mp_resume_should_unwind is not
\* looked at and the token is always released
ResumeDropRouteRelease(should_unwind) == "mp_resume_drop"

\* the if of mph_resume_drop: the callee chosen
ResumeDropRoute(should_unwind) ==
  IF should_unwind THEN "mph_resume_unwind" ELSE "mp_resume_drop"

\* should_unwind is what mp_resume_should_unwind(r) reports
mph_resume_drop(r, should_unwind) ==
  LET told == IF should_unwind THEN "should_unwind" ELSE "no_unwind" IN
  /\ Running /\ CanResume(r)
  /\ IF ResumeDropRoute(should_unwind) = "mph_resume_unwind"
       THEN ReenterVia(r, UnwindEnv, FALSE, NULL, told)
       ELSE Commit(frames, top, stack, mp_resume_drop(tokens, r), unw,
                   Ev("drop", tokens[r].h, NULL, told, top, r, NULL))

\* the handler side function returns v: v is the result of the mp_prompt or
\* mp_resume call that entered the prompt
YieldFunReturn(v) ==
  /\ Running /\ stack # <<>> /\ TopAct.t = "fn"
  /\ Commit(frames, top, Pop(stack), tokens, unw,
            Ev("fn_return", TopAct.f, v, "fn", TopAct.saved, TopAct.r, v))

\* -------------------------------------------------------------- unwind
mph_unwind_fun(hdata, arg) == arg

ApplyFun(fun, hdata, arg) ==
  IF fun = "mph_unwind_fun" THEN mph_unwind_fun(hdata, arg) ELSE NULL

\* a slip of the catch: the target is not compared
StartCatchesAny(e, h) == TRUE

\* catch (const mph_unwind_exception& e) of the mph_start of frame h:
\* TRUE when the exception is handled here, FALSE when it is rethrown
StartCatches(e, h) == e.target = h

\* C++ build: the exception leaves one activation that does not handle it;
\* the destructor of mph_raii_with_handler_t runs for an installed frame
UnwindPass ==
  /\ has_try /\ unw # NoUnwind /\ stack # <<>>
  /\ ~(TopAct.t = "start" /\ StartCatches(unw, TopAct.f))
  /\ Commit(frames,
            IF TopAct.t \in InstallTypes THEN WithHandlerExit(TopAct.f) ELSE top,
            Pop(stack), tokens, unw,
            Ev("unwind_pass", TopAct.f, NULL, TopAct.t, TopAct.saved, 0, NULL))

\* C++ build: the mph_start of the target catches the exception after its
\* frame is popped and returns e.fun(hdata, e.arg)
UnwindCatch ==
  /\ has_try /\ unw # NoUnwind /\ stack # <<>>
  /\ TopAct.t = "start" /\ StartCatches(unw, TopAct.f)
  /\ Commit(frames, WithHandlerExit(TopAct.f), Pop(stack), tokens, NoUnwind,
            Ev("unwind_return", TopAct.f,
               ApplyFun(unw.fun, frames[TopAct.f].hdata, unw.arg), "start",
               TopAct.saved, 1, unw.arg))

\* static void* mph_abort_fun(mp_resume_t* r, void* arg): drops r, returns arg
mph_abort_fun(arg) == arg

\* C build: mph_unwind_to is mph_abort_to(target, arg), a yield to the prompt of
\* the target whose function drops the continuation; `fun` is not used
mph_abort_to ==
  /\ ~has_try /\ unw # NoUnwind
  /\ mph_is_prompt_handler(unw.target)
  /\ \E i \in 1..Len(stack) :
       /\ stack[i].t = "start" /\ stack[i].f = unw.target
       /\ Commit(frames, top, mp_yield(stack, i, TopAct).rest, tokens, NoUnwind,
                 Ev("unwind_return", unw.target, mph_abort_fun(unw.arg), "abort",
                    stack[i].saved, 0, unw.arg))

\* ------------------------------------------------------- specification
Init ==
  /\ has_try \in BOOLEAN
  /\ cap = MaxFrames
  /\ tcap = MaxTokens
  /\ frames = <<>>
  /\ top = NULL
  /\ stack = <<>>
  /\ tokens = <<>>
  /\ unw = NoUnwind
  /\ ev = Ev("init", NULL, NULL, "", NULL, 0, NULL)

\* what the installers are given in runs that also yield and resume: the
\* transfer of control does not depend on the kinds or the data
YKinds == {"A"}
YHVals == {1}
YFromVals == {0}

Next ==
  \/ \E k \in YKinds, d \in YHVals : mph_linear_handler_call(k, d)
  \/ \E v \in BVals : mph_linear_handler_return(v)
  \/ \E k \in YKinds : mph_prompt_call(k)
  \/ \E v \in BVals : mph_start_return(v)
  \/ \E k \in YKinds, junk \in Indeterminate : mph_under_call(k, junk)
  \/ \E v \in BVals : mph_under_return(v)
  \/ \E k \in YKinds, from \in YFromVals, junk \in Indeterminate : mph_mask_call(k, from, junk)
  \/ \E v \in BVals : mph_mask_return(v)
  \/ \E k \in Kinds : Find(k)
  \/ \E i \in 1..Len(stack), p \in YVals : mph_yield_to(i, p)
  \/ \E i \in 1..Len(stack), p \in YVals : mph_myield_to(i, p)
  \/ \E r \in 1..Len(tokens), q \in RVals : mph_resume(r, q)
  \/ \E r \in 1..Len(tokens), q \in RVals : mph_resume_tail(r, q)
  \/ \E r \in 1..Len(tokens) : mph_resume_unwind(r)
  \/ \E r \in 1..Len(tokens), su \in BOOLEAN : mph_resume_drop(r, su)
  \/ \E v \in BVals : YieldFunReturn(v)
  \/ UnwindPass
  \/ UnwindCatch
  \/ mph_abort_to

Spec == Init /\ [][Next]_vars

\* runs that only nest installers and search: no yield, deeper stacks.  On
\* normal return mph_with_handler does the same in both builds, so one build
\* stands for both.
InitNest ==
  /\ has_try = FALSE
  /\ cap = MaxNest
  /\ tcap = MaxTokens
  /\ frames = <<>>
  /\ top = NULL
  /\ stack = <<>>
  /\ tokens = <<>>
  /\ unw = NoUnwind
  /\ ev = Ev("init", NULL, NULL, "", NULL, 0, NULL)

\* no operation of these runs reads the prompt field of a frame, so one
\* value stands for what an under or mask frame holds there
NestJunk == {Garbage}

NextNest ==
  \/ \E k \in Kinds, d \in HVals : mph_linear_handler_call(k, d)
  \/ \E v \in BVals : mph_linear_handler_return(v)
  \/ \E k \in Kinds : mph_prompt_call(k)
  \/ \E v \in BVals : mph_start_return(v)
  \/ \E k \in Kinds, junk \in NestJunk : mph_under_call(k, junk)
  \/ \E v \in BVals : mph_under_return(v)
  \/ \E k \in Kinds, from \in FromVals, junk \in NestJunk : mph_mask_call(k, from, junk)
  \/ \E v \in BVals : mph_mask_return(v)
  \/ \E k \in Kinds : Find(k)

SpecNest == InitNest /\ [][NextNest]_vars

\* runs in which a body that was resumed yields again: prompt and linear
\* handlers only, one-shot yields, no unwind
InitSeq ==
  /\ has_try = FALSE
  /\ cap = MaxFrames
  /\ tcap = MaxYields
  /\ frames = <<>>
  /\ top = NULL
  /\ stack = <<>>
  /\ tokens = <<>>
  /\ unw = NoUnwind
  /\ ev = Ev("init", NULL, NULL, "", NULL, 0, NULL)

NextSeq ==
  \/ \E k \in YKinds, d \in YHVals : mph_linear_handler_call(k, d)
  \/ \E v \in BVals : mph_linear_handler_return(v)
  \/ \E k \in YKinds : mph_prompt_call(k)
  \/ \E v \in BVals : mph_start_return(v)
  \/ \E k \in YKinds : Find(k)
  \/ \E i \in 1..Len(stack), p \in YVals : mph_yield_to(i, p)
  \/ \E r \in 1..Len(tokens), q \in RVals : mph_resume(r, q)
  \/ \E r \in 1..Len(tokens), q \in RVals : mph_resume_tail(r, q)
  \/ \E v \in BVals : YieldFunReturn(v)

SpecSeq == InitSeq /\ [][NextSeq]_vars

\* ============================================================ properties
\* position of activations on the call stack and the frames they installed
KindAt(i) == frames[stack[i].f].kind

IsHandlerAct(i) == stack[i].t \in {"linear", "start"}

\* the innermost activation among the lowest n whose frame has header kind
\* k, or 0
InnermostOfKind(n, k) ==
  LET S == {i \in 1..n : KindAt(i) = k} IN
  IF S = {} THEN 0 ELSE CHOOSE i \in S : \A j \in S : j <= i

FrameOrNull(i) == IF i = 0 THEN NULL ELSE stack[i].f

\* C1: with no yield performed, _mph_top is always the frame of the innermost
\* active installer call (NULL outside all of them), every frame's parent is
\* the frame of the call around it, and right after an installer call returns
\* _mph_top is what it was right before that call.
C1_StackDiscipline ==
  tokens = <<>> =>
    /\ top = FrameOrNull(Len(stack))
    /\ \A i \in 1..Len(stack) : frames[stack[i].f].parent = FrameOrNull(i - 1)
    /\ ev.op = "return" => top = ev.saved

\* a call nested three deep has just returned into the body around it
C1_Witness ==
  /\ tokens = <<>> /\ ev.op = "return" /\ Len(stack) = 2
  /\ top = stack[2].f /\ ev.saved = top

\* C2: with only linear and prompt handlers installed, mph_find(K) returns the
\* innermost installed handler of kind K (NULL if there is none): B inside
\* B's body, A once B has returned; and the data of a linear handler found
\* is the hdata it was installed with.
C2_InnermostWins ==
  (ev.op = "find" /\ tokens = <<>> /\ \A i \in 1..Len(stack) : IsHandlerAct(i)) =>
    LET b == InnermostOfKind(Len(stack), ev.k) IN
    /\ ev.f = FrameOrNull(b)
    /\ (b # 0 /\ stack[b].t = "linear") => mph_data(ev.f) = stack[b].arg

\* A (hdata 1) outside, B (hdata 2) inside, same kind: find inside B gave B
C2_Witness ==
  /\ ev.op = "find" /\ Len(stack) = 2 /\ tokens = <<>>
  /\ stack[1].t = "linear" /\ stack[2].t = "linear"
  /\ KindAt(1) = ev.k /\ KindAt(2) = ev.k
  /\ stack[1].arg = 1 /\ stack[2].arg = 2
  /\ ev.f = stack[2].f /\ mph_data(ev.f) = 2

\* C3: a yield to prompt handler h with payload p calls the handler side
\* function exactly once, with p and the token of this yield; when the token
\* is consumed by mph_resume(r, q) or mph_resume_tail(r, q) the yield returns
\* exactly q and no unwind is started.
C3_RoundTrip ==
  /\ ev.op = "yield" =>
       /\ stack # <<>> /\ TopAct.t = "fn"
       /\ TopAct.arg = ev.given /\ TopAct.r = ev.n /\ TopAct.f = ev.f
       /\ Cardinality({i \in 1..Len(stack) : stack[i].t = "fn" /\ stack[i].r = ev.n}) = 1
  /\ ev.op = "yield_return" =>
       /\ ev.given \in RVals /\ ev.val = ev.given
       /\ unw = NoUnwind

\* the body of a prompt handler is running again after its yield returned 5
C3_Witness ==
  /\ ev.op = "yield_return" /\ ev.val = 5 /\ ev.given = 5
  /\ stack # <<>> /\ TopAct.t = "start" /\ TopAct.f = ev.f

\* C4: when the mph_start of a prompt handler h that was yielded to and
\* resumed returns, _mph_top is the _mph_top of the resuming context at the
\* time of the resume.
C4_TopRestoredAfterResume ==
  (ev.op = "return" /\ ev.k = "start" /\ ev.n = 1) => top = ev.saved

\* the parent links from h reach NULL within `fuel` steps
RECURSIVE ChainEnds(_, _)
ChainEnds(h, fuel) ==
  IF h = NULL THEN TRUE
  ELSE IF fuel = 0 THEN FALSE
  ELSE ChainEnds(frames[h].parent, fuel - 1)

\* C5: the parent links from _mph_top visit no frame twice and end at NULL,
\* and no installed frame is its own parent.
C5_AcyclicChain ==
  /\ ChainEnds(top, Len(frames))
  /\ \A h \in OnStack(stack) : frames[h].parent # h

\* C6: when an unwind to prompt handler h has made h's prompt return,
\* _mph_top is the _mph_top of the resuming context at the time of the
\* resume, in both builds.
C6_TopRestoredOnUnwind ==
  ev.op = "unwind_return" => top = ev.saved

\* C7: mph_resume_unwind(r) on a token of a yield to h starts an unwind whose
\* target is h and leaves the yield site without returning to it; while the
\* unwind is in flight each step either passes one activation that is not the
\* mph_start of h, the unwind unchanged, or ends the unwind by making h's
\* prompt return the payload: the stack is cut right below h's mph_start.
C7_UnwindSealed ==
  [][ /\ (unw = NoUnwind /\ unw' # NoUnwind) =>
           /\ ev'.op = "unwind_to"
           /\ unw'.target = tokens[ev'.n].h
           /\ stack' # <<>> /\ stack'[Len(stack')].t = "yield"
      /\ (unw # NoUnwind) =>
           \/ /\ unw' = unw
              /\ ev'.op = "unwind_pass"
              /\ ~(ev'.k = "start" /\ ev'.f = unw.target)
              /\ stack' = Pop(stack)
           \/ /\ unw' = NoUnwind
              /\ ev'.op = "unwind_return"
              /\ ev'.f = unw.target /\ ev'.val = unw.arg
              /\ Len(stack') < Len(stack)
              /\ stack' = SubSeq(stack, 1, Len(stack'))
              /\ stack[Len(stack') + 1].t = "start"
              /\ stack[Len(stack') + 1].f = unw.target
    ]_vars

\* C++ build: the unwind has just left the mph_start of a prompt handler
\* nested between the yield site and the target
C7_Witness ==
  /\ has_try /\ unw # NoUnwind
  /\ ev.op = "unwind_pass" /\ ev.k = "start" /\ ev.f # unw.target
  /\ unw.target \in OnStack(stack)

\* C8: every unwind to prompt handler h invokes the unwind function exactly
\* once, in the mph_start of h, and its value, the payload, is the result of
\* h's prompt.
C8_UnwindFunOnce ==
  ev.op = "unwind_return" => (ev.n = 1 /\ ev.k = "start" /\ ev.val = ev.given)


\* C9: inside mph_under(K, body), with A the innermost frame of kind K below
\* the under frame and only handlers of other kinds installed above the under
\* frame, mph_find(K) is never A: it is what the search gives from A's parent,
\* and when only handlers lie below A this is the innermost handler of kind K
\* strictly below A, or NULL.
C9_UnderHidesOne ==
  \A u \in 1..Len(stack) :
    ( /\ ev.op = "find" /\ tokens = <<>>
      /\ stack[u].t = "under" /\ frames[stack[u].f].under = ev.k
      /\ \A j \in (u + 1)..Len(stack) : IsHandlerAct(j) /\ KindAt(j) # ev.k
      /\ InnermostOfKind(u - 1, ev.k) # 0 )
    => LET a == InnermostOfKind(u - 1, ev.k) IN
       /\ ev.f # stack[a].f
       /\ ev.f = FindFrom(frames[stack[a].f].parent, ev.k)
       /\ (\A j \in 1..(a - 1) : IsHandlerAct(j)) =>
            ev.f = FrameOrNull(InnermostOfKind(a - 1, ev.k))

\* two prompt handlers of kind A, under(A) innermost: find(A) gave the outer
C9_Witness ==
  /\ ev.op = "find" /\ ev.k = "A" /\ Len(stack) = 3 /\ tokens = <<>>
  /\ stack[1].t = "start" /\ KindAt(1) = "A"
  /\ stack[2].t = "start" /\ KindAt(2) = "A"
  /\ stack[3].t = "under" /\ frames[stack[3].f].under = "A"
  /\ ev.f = stack[1].f

\* C10: inside mph_mask(K, 0, body) called directly in the body of a handler
\* H of kind K, mph_find(K) is what the search gives from H's parent: it is
\* not H, it is the next handler of kind K when only handlers lie below H,
\* and it is NULL when H is the only frame of kind K.
C10_SingleMask ==
  ( /\ ev.op = "find" /\ tokens = <<>> /\ Len(stack) >= 2
    /\ TopAct.t = "mask" /\ frames[TopAct.f].mask = ev.k /\ frames[TopAct.f].from = 0
    /\ IsHandlerAct(Len(stack) - 1) /\ KindAt(Len(stack) - 1) = ev.k )
  => LET n == Len(stack) - 1 IN
     /\ ev.f # stack[n].f
     /\ ev.f = FindFrom(frames[stack[n].f].parent, ev.k)
     /\ (\A j \in 1..(n - 1) : IsHandlerAct(j)) =>
          ev.f = FrameOrNull(InnermostOfKind(n - 1, ev.k))
     /\ InnermostOfKind(n - 1, ev.k) = 0 => ev.f = NULL

\* prompt handler of kind A, mask(A, 0) in its body: find(A) gave NULL
C10_Witness ==
  /\ ev.op = "find" /\ ev.k = "A" /\ Len(stack) = 2 /\ tokens = <<>>
  /\ stack[1].t = "start" /\ KindAt(1) = "A"
  /\ stack[2].t = "mask" /\ frames[stack[2].f].mask = "A" /\ frames[stack[2].f].from = 0
  /\ ev.f = NULL

\* mph_mask(K, 0, ..) directly in the body of handler H of kind K, and
\* mph_mask(K, 1, body) directly in its body: the activation of H, or 0
NestedMasksOver(k) ==
  LET n == Len(stack) IN
  IF /\ n >= 3
     /\ stack[n].t = "mask" /\ frames[stack[n].f].mask = k /\ frames[stack[n].f].from = 1
     /\ stack[n - 1].t = "mask" /\ frames[stack[n - 1].f].mask = k
     /\ frames[stack[n - 1].f].from = 0
     /\ IsHandlerAct(n - 2) /\ KindAt(n - 2) = k
  THEN n - 2 ELSE 0

\* C11 as stated: inside mask(K, 0, mask(K, 1, body)) in the body of H,
\* mph_find(K) passes over two frames of kind K, H and the next handler of
\* kind K, and returns the third innermost handler of kind K, or NULL.
C11_NestedMasksSkipTwo ==
  LET h == NestedMasksOver(ev.k) IN
  ( /\ ev.op = "find" /\ tokens = <<>> /\ h # 0
    /\ \A j \in 1..(h - 1) : IsHandlerAct(j) )
  => LET h2 == InnermostOfKind(h - 1, ev.k)
         h3 == IF h2 = 0 THEN 0 ELSE InnermostOfKind(h2 - 1, ev.k)
     IN ev.f = FrameOrNull(h3)

\* C11: inside mask(K, 0, mask(K, 1, body)) in the body of H, mph_find(K)
\* passes over H only: it is not H, it is what the search gives from H's
\* parent, and when only handlers lie below H it is the next handler of kind
\* K (the second innermost), or NULL when H is the only one.
C11_NestedMasksSkipOnce ==
  LET h == NestedMasksOver(ev.k) IN
  (ev.op = "find" /\ tokens = <<>> /\ h # 0)
  => /\ ev.f # stack[h].f
     /\ ev.f = FindFrom(frames[stack[h].f].parent, ev.k)
     /\ (\A j \in 1..(h - 1) : IsHandlerAct(j)) =>
          ev.f = FrameOrNull(InnermostOfKind(h - 1, ev.k))

\* handlers H2 and H of kind A, mask(A, 0) and mask(A, 1) inside: find(A)
\* gave H2
C11_Witness ==
  /\ ev.op = "find" /\ ev.k = "A" /\ Len(stack) = 4 /\ tokens = <<>>
  /\ NestedMasksOver("A") = 2
  /\ IsHandlerAct(1) /\ KindAt(1) = "A"
  /\ ev.f = stack[1].f

\* C12: each time a token of mph_myield_to(h, fn, p) is resumed with a value
\* q, the yield returns q (so q1, then q2), _mph_top is the _mph_top of the
\* yield, the frames of the captured slice above h are as they were captured,
\* h's parent is the _mph_top of the resumer, and the parent links from
\* _mph_top end at NULL.
C12_MultiShot ==
  (ev.op = "yield_return" /\ ~tokens[ev.n].once) =>
    LET tk == tokens[ev.n] IN
    /\ ev.val = ev.given
    /\ top = tk.ytop
    /\ \A f \in OnStack(tk.seg) \ {tk.h} : frames[f] = tk.snap[f]
    /\ frames[tk.h].parent = ev.saved
    /\ ChainEnds(top, Len(frames))

\* C13: mph_resume_drop(r) on a live token does exactly one of two things:
\* when mp_resume_should_unwind(r) holds it resumes r with the envelope
\* {NULL, unwind} (the continuation is re-entered and an unwind to its handler
\* with payload NULL starts) and the token is not released by the drop of the
\* substrate; otherwise the token is released and nothing is resumed (no
\* unwind starts, the call stack is as it was).
C13_ResumeDropRoute ==
  (ev.k \in {"should_unwind", "no_unwind"}) =>
    LET unwound == /\ ev.op = "unwind_to"
                   /\ unw = [target |-> ev.f, fun |-> "mph_unwind_fun", arg |-> NULL]
                   /\ stack # <<>> /\ TopAct.t = "yield" /\ TopAct.f = ev.f
        dropped == /\ ev.op = "drop"
                   /\ tokens[ev.n].st = "dropped"
    IN /\ unwound <=> ev.k = "should_unwind"
       /\ dropped <=> ev.k = "no_unwind"
       /\ unwound => tokens[ev.n].st # "dropped"
       /\ dropped => (unw = NoUnwind /\ ~(stack # <<>> /\ TopAct.t = "yield"))

\* a token was just disposed of by mph_resume_drop through an unwind
C13_Witness ==
  /\ ev.k = "should_unwind" /\ ev.op = "unwind_to"
  /\ unw.target = ev.f /\ tokens[ev.n].st # "dropped"

\* C14: right after a continuation captured by a yield to h is re-entered by
\* a resume (of any kind), h's parent is the _mph_top the resumer had when it
\* called the resume, and _mph_top is the _mph_top of the yield.
C14_RelinkToLive ==
  (ev.op \in {"yield_return", "unwind_to"}) =>
    /\ frames[ev.f].parent = ev.saved
    /\ top = tokens[ev.n].ytop

\* the frames the parent links lead to from h, in at most fuel steps
RECURSIVE ChainSet(_, _)
ChainSet(h, fuel) ==
  IF h = NULL \/ fuel = 0 THEN {}
  ELSE {h} \cup ChainSet(frames[h].parent, fuel - 1)

\* activation i is a handler side function whose token is not yet resumed,
\* and all that runs above it are installers it called
FunBeforeResume(i) ==
  /\ stack[i].t = "fn"
  /\ tokens[stack[i].r].st = "live" /\ tokens[stack[i].r].uses = 0
  /\ \A j \in (i + 1)..Len(stack) : stack[j].t \in InstallTypes

\* C15: while the handler side function of a yield to h runs and the token
\* is not yet resumed, _mph_top in the function itself is what h's parent was
\* at the yield, neither h nor another frame of the captured slice is on the
\* chain from _mph_top, and mph_find(kind of h) is never h.
C15_FunOutsideSlice ==
  \A i \in 1..Len(stack) :
    FunBeforeResume(i) =>
      LET h == stack[i].f IN
      /\ (i = Len(stack)) => top = stack[i].saved
      /\ ChainSet(top, Len(frames)) \cap OnStack(tokens[stack[i].r].seg) = {}
      /\ (ev.op = "find" /\ ev.k = frames[h].kind) => ev.f # h

\* C16: while the body of mph_mask(m, from, body, arg) runs and has installed
\* no further frame, _mph_top is the frame of this call, its header kind is
\* MPH_MASK (the kind on which mph_find counts mask levels) and its mask
\* field is m.
C16_MaskTagged ==
  (stack # <<>> /\ TopAct.t = "mask" /\ tokens = <<>>) =>
    /\ top = TopAct.f
    /\ frames[top].kind = MPH_MASK
    /\ (ev.op = "install" => frames[top].mask = ev.k)

\* C17: for user kinds m and k, k other than m, mph_find(k) called in the
\* body of mph_mask(m, from, body) with no further frame installed returns
\* what the search gives from the frame below the mask frame; when only
\* handlers lie below, that is the innermost handler of kind k.
C17_MaskOwnKindOnly ==
  ( /\ ev.op = "find" /\ tokens = <<>> /\ stack # <<>>
    /\ TopAct.t = "mask" /\ frames[TopAct.f].mask # ev.k )
  => LET n == Len(stack) - 1 IN
     /\ ev.f = FindFrom(frames[TopAct.f].parent, ev.k)
     /\ (\A j \in 1..n : IsHandlerAct(j)) => ev.f = FrameOrNull(InnermostOfKind(n, ev.k))

\* C18: every installed frame of mph_linear_handler, mph_under or mph_mask
\* has prompt = NULL as long as its call is active, so mph_is_prompt_handler
\* is false of it; every installed frame of mph_prompt holds the prompt its
\* mph_start runs under, so mph_is_prompt_handler is true of it.
C18_OnlyPromptCapturable ==
  \A i \in 1..Len(stack) :
    stack[i].t \in InstallTypes =>
      LET f == stack[i].f IN
      IF stack[i].t = "start"
        THEN frames[f].prompt = f /\ mph_is_prompt_handler(f)
        ELSE frames[f].prompt = NULL /\ ~mph_is_prompt_handler(f)

\* C19: every frame on the chain of parent links from _mph_top is the frame
\* of an installer call that is still active on the call stack (it has not
\* returned and was not unwound).
C19_NoDangling ==
  ChainSet(top, Len(frames)) \subseteq OnStack(stack)

\* C20: every call of mph_find(kind) returns: its result is a frame of that
\* kind or NULL, it is NULL when no installed frame has that kind, and the
\* call changes neither _mph_top nor any frame.
C20_FindTerminates ==
  [][ (ev'.op = "find") =>
        /\ ev'.f # Diverge
        /\ ev'.f # NULL => (ev'.f \in 1..Len(frames) /\ frames[ev'.f].kind = ev'.k)
        /\ (\A f \in OnStack(stack) : frames[f].kind # ev'.k) => ev'.f = NULL
        /\ top' = top /\ frames' = frames
    ]_vars

====
